---- MODULE Spec2Model ----
(***************************************************************************)
(* Timeseries algebra (gs_quant/timeseries/algebra.py): the binary         *)
(* operators add, subtract, multiply, divide over two aligned series and   *)
(* the unary floor and ceil.  A call is one step: it reads its arguments   *)
(* and leaves the aligned pair, the outcome and the returned series.       *)
(***************************************************************************)
EXTENDS Integers, Sequences, FiniteSets

\* Timestamps are 1..MaxT.
MaxT == 3

(***************************************************************************)
(* Values.  A float is a record: a finite number n/d in lowest terms       *)
(* (d > 0), or one of the IEEE markers nan, inf, -inf.                     *)
(***************************************************************************)
Abs(n) == IF n < 0 THEN -n ELSE n

RECURSIVE GCD(_, _)
GCD(a, b) == IF b = 0 THEN a ELSE GCD(b, a % b)

Rat(n, d) ==
    LET g == GCD(Abs(n), d)
    IN [k |-> "num", n |-> n \div g, d |-> d \div g]

Num(n) == [k |-> "num", n |-> n, d |-> 1]
NaN == [k |-> "nan", n |-> 0, d |-> 1]
Inf == [k |-> "inf", n |-> 0, d |-> 1]
NegInf == [k |-> "ninf", n |-> 0, d |-> 1]

IsNum(a) == a.k = "num"
IsNaN(a) == a.k = "nan"

\* a > b as Python compares floats: False when either side is nan.
Gt(a, b) == IsNum(a) /\ IsNum(b) /\ a.n * b.d > b.n * a.d

\* Elementwise float arithmetic on finite numbers and nan (the values a
\* series carries into an operator); nan propagates.
Plus(a, b) ==
    IF IsNaN(a) \/ IsNaN(b) THEN NaN
    ELSE Rat(a.n * b.d + b.n * a.d, a.d * b.d)

Minus(a, b) ==
    IF IsNaN(a) \/ IsNaN(b) THEN NaN
    ELSE Rat(a.n * b.d - b.n * a.d, a.d * b.d)

Times(a, b) ==
    IF IsNaN(a) \/ IsNaN(b) THEN NaN
    ELSE Rat(a.n * b.n, a.d * b.d)

\* Series division: x/0 is inf, -inf or nan (0/0), never an exception.
Quot(a, b) ==
    IF IsNaN(a) \/ IsNaN(b) THEN NaN
    ELSE IF b.n = 0
         THEN IF a.n > 0 THEN Inf ELSE IF a.n < 0 THEN NegInf ELSE NaN
         ELSE IF b.n > 0 THEN Rat(a.n * b.d, a.d * b.n)
              ELSE Rat(-(a.n * b.d), a.d * (-b.n))

Apply(f, a, b) ==
    CASE f = "add" -> Plus(a, b)
      [] f = "subtract" -> Minus(a, b)
      [] f = "multiply" -> Times(a, b)
      [] f = "divide" -> Quot(a, b)

(***************************************************************************)
(* Series: a sequence of entries [t, v] in index order.  An operand is a   *)
(* scalar or a series.                                                     *)
(***************************************************************************)
Entry(t, v) == [t |-> t, v |-> v]

Scalar(v) == [kind |-> "scalar", val |-> v, data |-> <<>>]
Series(s) == [kind |-> "series", val |-> NaN, data |-> s]
None == [kind |-> "none", val |-> NaN, data |-> <<>>]

IsScalar(x) == x.kind = "scalar"
IsSeries(x) == x.kind = "series"

Index(s) == [i \in 1..Len(s) |-> s[i].t]
Times_(s) == {s[i].t : i \in 1..Len(s)}
Has(s, t) == \E i \in 1..Len(s) : s[i].t = t
At(s, t) == s[CHOOSE i \in 1..Len(s) : s[i].t = t].v

StrictlyAscending(ix) == \A i \in 1..(Len(ix) - 1) : ix[i] < ix[i + 1]

RECURSIVE SortedSeq(_)
SortedSeq(S) ==
    IF S = {} THEN <<>>
    ELSE LET m == CHOOSE a \in S : \A b \in S : a <= b
         IN <<m>> \o SortedSeq(S \ {m})

(***************************************************************************)
(* align(x, y, method), imported from .datetime (algebra.py line 20).      *)
(* Returns the two operands on a common index, or the error it fails with. *)
(***************************************************************************)
Methods == {"INTERSECT", "NAN", "ZERO", "STEP"}

Max(S) == CHOOSE a \in S : \A b \in S : b <= a

\* Last observation of s strictly before t carried forward; nan when t
\* precedes the first observation of s.
CarryForward(s, t) ==
    LET prior == {i \in 1..Len(s) : s[i].t < t}
    IN IF prior = {} THEN NaN ELSE s[Max(prior)].v

\* The value side s takes at timestamp t of the common index.
Resolve(s, t, method) ==
    IF Has(s, t) THEN At(s, t)
    ELSE CASE method = "NAN" -> NaN
           [] method = "ZERO" -> Num(0)
           [] method = "STEP" -> CarryForward(s, t)
           [] OTHER -> NaN

Reindex(s, ix, method) ==
    [i \in 1..Len(ix) |-> Entry(ix[i], Resolve(s, ix[i], method))]

Broadcast(v, s) == [i \in 1..Len(s) |-> Entry(s[i].t, v)]

AlignOk(xa, ya) == [error |-> "none", x |-> xa, y |-> ya]
AlignError(e) == [error |-> e, x |-> None, y |-> None]

align(x, y, method) ==
    IF IsScalar(x) /\ IsScalar(y) THEN AlignOk(x, y)
    ELSE IF \/ IsSeries(x) /\ ~StrictlyAscending(Index(x.data))
            \/ IsSeries(y) /\ ~StrictlyAscending(Index(y.data))
         THEN AlignError("ValueConstraintError")
    ELSE IF IsScalar(x) THEN AlignOk(Series(Broadcast(x.val, y.data)), y)
    ELSE IF IsScalar(y) THEN AlignOk(x, Series(Broadcast(y.val, x.data)))
    ELSE LET common == IF method = "INTERSECT"
                       THEN Times_(x.data) \cap Times_(y.data)
                       ELSE Times_(x.data) \cup Times_(y.data)
             ix == SortedSeq(common)
         IN AlignOk(Series(Reindex(x.data, ix, method)),
                    Series(Reindex(y.data, ix, method)))

(***************************************************************************)
(* The operator layer.                                                     *)
(***************************************************************************)
\* xs.add(ys) and its siblings on two series: values are matched by index
\* label over the union of the two indices; a label one side lacks is nan
\* on that side.
SeriesArith(f, xs, ys) ==
    LET ix == SortedSeq(Times_(xs) \cup Times_(ys))
        side(s, t) == IF Has(s, t) THEN At(s, t) ELSE NaN
    IN [i \in 1..Len(ix) |->
            Entry(ix[i], Apply(f, side(xs, ix[i]), side(ys, ix[i])))]

Returned(xa, ya, r) ==
    [outcome |-> "ok", x_align |-> xa, y_align |-> ya, result |-> r]
Raised(e, xa, ya) ==
    [outcome |-> e, x_align |-> xa, y_align |-> ya, result |-> <<>>]

\* [x_align, y_align] = align(x, y, method); return x_align.<f>(y_align)
Binary(f, x, y, method) ==
    LET a == align(x, y, method)
    IN IF a.error # "none" THEN Raised(a.error, None, None)
       ELSE IF ~IsSeries(a.x) THEN Raised("AttributeError", a.x, a.y)
       ELSE Returned(a.x, a.y, SeriesArith(f, a.x.data, a.y.data))

\* Faulty variants of the operators, used to test that the properties
\* below depend on the operator layer.
\* add that computes the difference.
add_as_subtract(x, y, method) == Binary("subtract", x, y, method)

\* add written as x_align.add(y_align, fill_value=0): a value missing on
\* one side only counts as 0.
add_fill_value(x, y, method) ==
    LET r == Binary("add", x, y, method)
        fill(a, b) == IF IsNaN(a) /\ ~IsNaN(b) THEN Num(0) ELSE a
    IN IF r.outcome # "ok" THEN r
       ELSE [r EXCEPT !.result =
                [i \in 1..Len(r.result) |->
                    LET a == r.x_align.data[i].v
                        b == r.y_align.data[i].v
                    IN Entry(r.result[i].t, Plus(fill(a, b), fill(b, a)))]]

\* add that ignores its method and always intersects.
add_intersect(x, y, method) == Binary("add", x, y, "INTERSECT")

\* subtract with the operands the wrong way round.
subtract_swapped(x, y, method) ==
    LET r == Binary("subtract", x, y, method)
    IN IF r.outcome # "ok" THEN r
       ELSE [r EXCEPT !.result =
                SeriesArith("subtract", r.y_align.data, r.x_align.data)]

\* subtract that aligns as its docstring's default says (intersect).
subtract_intersect(x, y, method) == Binary("subtract", x, y, "INTERSECT")

\* multiply that drops the missing entries of its result.
NotMissing(e) == ~IsNaN(e.v)
multiply_dropna(x, y, method) ==
    LET r == Binary("multiply", x, y, method)
    IN [r EXCEPT !.result = SelectSeq(r.result, NotMissing)]

\* multiply that treats a zero operand as missing.
multiply_zero_missing(x, y, method) ==
    LET r == Binary("multiply", x, y, method)
    IN [r EXCEPT !.result =
            [i \in 1..Len(r.result) |->
                IF r.result[i].v = Num(0) THEN Entry(r.result[i].t, NaN)
                ELSE r.result[i]]]

\* divide with Python's scalar semantics: a zero denominator raises.
divide_raises(x, y, method) ==
    LET r == Binary("divide", x, y, method)
    IN IF /\ r.outcome = "ok"
          /\ \E i \in 1..Len(r.y_align.data) : r.y_align.data[i].v = Num(0)
       THEN Raised("ZeroDivisionError", r.x_align, r.y_align)
       ELSE r

add(x, y, method) == Binary("add", x, y, method)

subtract(x, y, method) == Binary("subtract", x, y, method)

multiply(x, y, method) == Binary("multiply", x, y, method)

divide(x, y, method) == Binary("divide", x, y, method)

\* x.index.is_monotonic_increasing: each label >= the one before it.
is_monotonic_increasing(ix) == \A i \in 1..(Len(ix) - 1) : ix[i] <= ix[i + 1]

\* Python's max(y, value) and min(y, value): the first argument unless the
\* second compares strictly greater (smaller).
PyMax(y, value) == IF Gt(value, y) THEN value ELSE y
PyMin(y, value) == IF Gt(y, value) THEN value ELSE y

\* Faulty variants of floor and ceil.
\* floor that also rejects repeated timestamps.
floor_unique(x, value) ==
    IF ~StrictlyAscending(Index(x.data))
    THEN Raised("AssertionError", None, None)
    ELSE Returned(None, None,
            [i \in 1..Len(x.data) |->
                Entry(x.data[i].t, PyMax(x.data[i].v, value))])

\* ceil that floors (max where min is meant).
ceil_as_floor(x, value) ==
    IF ~is_monotonic_increasing(Index(x.data))
    THEN Raised("AssertionError", None, None)
    ELSE Returned(None, None,
            [i \in 1..Len(x.data) |->
                Entry(x.data[i].t, PyMax(x.data[i].v, value))])

floor(x, value) ==
    IF ~is_monotonic_increasing(Index(x.data))
    THEN Raised("AssertionError", None, None)
    ELSE Returned(None, None,
            [i \in 1..Len(x.data) |->
                Entry(x.data[i].t, PyMax(x.data[i].v, value))])

ceil(x, value) ==
    IF ~is_monotonic_increasing(Index(x.data))
    THEN Raised("AssertionError", None, None)
    ELSE Returned(None, None,
            [i \in 1..Len(x.data) |->
                Entry(x.data[i].t, PyMin(x.data[i].v, value))])

(***************************************************************************)
(* Arguments the calls are made with.                                      *)
(***************************************************************************)
Absent == [k |-> "absent", n |-> 0, d |-> 1]

\* Values of the first and of the second operand (the second supplies the
\* zero and non-zero denominators), of scalars, and of floor/ceil inputs.
XVals == {Num(-1), Num(0), Num(2)}
YVals == {Num(0), Num(2)}
ScalarVals == {Num(-1), Num(0), Num(2)}
UnaryVals == {Num(-1), Num(2), NaN}
Levels == {Num(0), Num(2)}

\* The timeseries holding f[t] at every timestamp t where f is not Absent.
FromMap(f) ==
    LET ix == SortedSeq({t \in 1..MaxT : f[t] # Absent})
    IN [i \in 1..Len(ix) |-> Entry(ix[i], f[ix[i]])]

\* Timeseries of the data model: strictly ascending timestamps.
TimeSeries(vals) == {FromMap(f) : f \in [1..MaxT -> vals \cup {Absent}]}

Operands(vals) ==
    {Series(s) : s \in TimeSeries(vals)} \cup {Scalar(v) : v \in ScalarVals}

\* Series as a caller may hand them to floor and ceil: any index order.
RawSeries ==
    UNION {[1..n -> {Entry(t, v) : t \in 1..MaxT, v \in UnaryVals}] : n \in 0..MaxT}

(***************************************************************************)
(* State: the arguments a caller holds (x, y, value), the last call made   *)
(* with them (op, method), the locals x_align and y_align of a binary      *)
(* operator, and what the call ended with.  Arguments are never written.   *)
(***************************************************************************)
VARIABLES x, y, value, op, method, x_align, y_align, outcome, result

vars == <<x, y, value, op, method, x_align, y_align, outcome, result>>

NoCall ==
    /\ op = "none"
    /\ method = "none"
    /\ x_align = None
    /\ y_align = None
    /\ outcome = "none"
    /\ result = <<>>

\* Arguments of a binary operator.
Init ==
    /\ x \in Operands(XVals)
    /\ y \in Operands(YVals)
    /\ value = NaN
    /\ NoCall

\* Arguments of floor and ceil.
InitUnary ==
    /\ x \in {Series(s) : s \in RawSeries}
    /\ y = None
    /\ value \in Levels
    /\ NoCall

Ends(r) ==
    /\ x_align' = r.x_align
    /\ y_align' = r.y_align
    /\ outcome' = r.outcome
    /\ result' = r.result

CallAdd ==
    /\ op = "none" /\ y # None
    /\ \E m \in Methods :
        /\ op' = "add" /\ method' = m
        /\ Ends(add(x, y, m))
    /\ UNCHANGED <<x, y, value>>

CallSubtract ==
    /\ op = "none" /\ y # None
    /\ \E m \in Methods :
        /\ op' = "subtract" /\ method' = m
        /\ Ends(subtract(x, y, m))
    /\ UNCHANGED <<x, y, value>>

CallMultiply ==
    /\ op = "none" /\ y # None
    /\ \E m \in Methods :
        /\ op' = "multiply" /\ method' = m
        /\ Ends(multiply(x, y, m))
    /\ UNCHANGED <<x, y, value>>

CallDivide ==
    /\ op = "none" /\ y # None
    /\ \E m \in Methods :
        /\ op' = "divide" /\ method' = m
        /\ Ends(divide(x, y, m))
    /\ UNCHANGED <<x, y, value>>

CallFloor ==
    /\ op = "none" /\ y = None
    /\ op' = "floor"
    /\ Ends(floor(x, value))
    /\ UNCHANGED <<x, y, value, method>>

CallCeil ==
    /\ op = "none" /\ y = None
    /\ op' = "ceil"
    /\ Ends(ceil(x, value))
    /\ UNCHANGED <<x, y, value, method>>

\* The caller takes the result; nothing of the call is kept.
Return ==
    /\ op # "none"
    /\ op' = "none"
    /\ method' = "none"
    /\ x_align' = None
    /\ y_align' = None
    /\ outcome' = "none"
    /\ result' = <<>>
    /\ UNCHANGED <<x, y, value>>

Next ==
    \/ CallAdd
    \/ CallSubtract
    \/ CallMultiply
    \/ CallDivide
    \/ Return

NextUnary ==
    \/ CallFloor
    \/ CallCeil
    \/ Return

Spec == Init /\ [][Next]_vars

SpecUnary == InitUnary /\ [][NextUnary]_vars

(***************************************************************************)
(* Properties of the binary operators.                                     *)
(***************************************************************************)
BinaryOps == {"add", "subtract", "multiply", "divide"}

\* A binary operator was called on two timeseries a and b.
BothSeries == op \in BinaryOps /\ IsSeries(x) /\ IsSeries(y)
a == x.data
b == y.data

Ascending(s) == \A i, j \in 1..Len(s) : i < j => s[i].t < s[j].t
OnlyIn(s, r) == Times_(s) \ Times_(r)
Shared == Times_(a) \cap Times_(b)
Union == Times_(a) \cup Times_(b)

\* The returned series is indexed by exactly the timestamps T, ascending.
ReturnsOver(T) == outcome = "ok" /\ Times_(result) = T /\ Ascending(result)

\* C1: with method INTERSECT each binary operator returns a series indexed
\* by the intersection of the two timestamp sets, ascending, holding
\* a[t] op b[t] at every shared timestamp t; timestamps of one input only
\* never appear and disjoint inputs give an empty result.
C1_Intersect ==
    (BothSeries /\ method = "INTERSECT") =>
        /\ ReturnsOver(Shared)
        /\ \A t \in Shared : At(result, t) = Apply(op, At(a, t), At(b, t))
        /\ \A t \in OnlyIn(a, b) \cup OnlyIn(b, a) : ~Has(result, t)
        /\ (Shared = {} => result = <<>>)

C1_Witness ==
    /\ BothSeries /\ method = "INTERSECT" /\ op = "subtract"
    /\ Shared # {} /\ OnlyIn(a, b) # {} /\ OnlyIn(b, a) # {}
    /\ Len(result) = Cardinality(Shared)
    /\ \E t \in Shared : At(a, t) # At(b, t)

\* The most recent observation of s at or before t; nan when there is none.
LastObserved(s, t) ==
    IF \A i \in 1..Len(s) : s[i].t > t THEN NaN
    ELSE LET i == CHOOSE i \in 1..Len(s) :
                    /\ s[i].t <= t
                    /\ \A j \in 1..Len(s) : s[j].t <= t => s[j].t <= s[i].t
         IN s[i].v

\* C2: with method STEP the result is indexed by the union, ascending; at a
\* timestamp of one side only the other side contributes its most recent
\* value at or before t, and when t precedes that side's first observation
\* it contributes the missing marker and the result at t is missing.
C2_Step ==
    (BothSeries /\ method = "STEP") =>
        /\ ReturnsOver(Union)
        /\ \A t \in OnlyIn(b, a) :
            /\ At(x_align.data, t) = LastObserved(a, t)
            /\ At(result, t) = Apply(op, LastObserved(a, t), At(b, t))
            /\ (\A i \in 1..Len(a) : t < a[i].t) =>
                    IsNaN(At(x_align.data, t)) /\ IsNaN(At(result, t))
        /\ \A t \in OnlyIn(a, b) :
            /\ At(y_align.data, t) = LastObserved(b, t)
            /\ At(result, t) = Apply(op, At(a, t), LastObserved(b, t))
            /\ (\A i \in 1..Len(b) : t < b[i].t) =>
                    IsNaN(At(y_align.data, t)) /\ IsNaN(At(result, t))

\* a has observations at 1 and 2, b only a later one: the later of a's two
\* values is carried; and a timestamp of a precedes b's first observation.
C2_Witness ==
    /\ BothSeries /\ method = "STEP" /\ op = "add" /\ outcome = "ok"
    /\ \E t \in OnlyIn(b, a) :
        /\ Cardinality({i \in 1..Len(a) : a[i].t < t}) >= 2
        /\ At(result, t) = Plus(a[Len(a)].v, At(b, t))
        /\ a[1].v # a[Len(a)].v
    /\ \E t \in OnlyIn(a, b) : t < b[1].t /\ IsNaN(At(result, t))

\* C3 as stated: with method ZERO the result is indexed by the union and
\* a value at a timestamp present only in a equals a's value op 0 for add
\* and subtract, or 0 for multiply and divide.
C3_ZeroAsStated ==
    (BothSeries /\ method = "ZERO") =>
        /\ ReturnsOver(Union)
        /\ \A t \in OnlyIn(a, b) :
            IF op \in {"add", "subtract"}
            THEN At(result, t) = Apply(op, At(a, t), Num(0))
            ELSE At(result, t) = Num(0)

\* C3 amended: with method ZERO the result is indexed by the union and a
\* value at a timestamp present only in a equals a's value op 0 for every
\* operator: a[t] for add and subtract, 0 for multiply, and for divide the
\* division-by-zero marker of a[t] / 0 (inf, -inf, or missing for 0 / 0).
C3_Zero ==
    (BothSeries /\ method = "ZERO") =>
        /\ ReturnsOver(Union)
        /\ \A t \in OnlyIn(a, b) :
            /\ At(y_align.data, t) = Num(0)
            /\ op \in {"add", "subtract"} => At(result, t) = At(a, t)
            /\ op = "multiply" => At(result, t) = Num(0)
            /\ op = "divide" =>
                At(result, t) = IF Gt(At(a, t), Num(0)) THEN Inf
                                ELSE IF Gt(Num(0), At(a, t)) THEN NegInf
                                ELSE NaN

C3_Witness ==
    /\ BothSeries /\ method = "ZERO" /\ op = "divide" /\ outcome = "ok"
    /\ \E t \in OnlyIn(a, b) : At(a, t) = Num(2) /\ At(result, t) = Inf
    /\ \E t \in OnlyIn(a, b) : At(a, t) = Num(0) /\ IsNaN(At(result, t))
    /\ OnlyIn(b, a) # {}

\* C4: with method NAN the result is indexed by the union, ascending; at a
\* timestamp of both inputs it is a[t] op b[t], and at a timestamp of only
\* one input it is the missing marker.
C4_Nan ==
    (BothSeries /\ method = "NAN") =>
        /\ ReturnsOver(Union)
        /\ \A t \in Shared : At(result, t) = Apply(op, At(a, t), At(b, t))
        /\ \A t \in OnlyIn(a, b) :
            IsNaN(At(y_align.data, t)) /\ IsNaN(At(result, t))
        /\ \A t \in OnlyIn(b, a) :
            IsNaN(At(x_align.data, t)) /\ IsNaN(At(result, t))

C4_Witness ==
    /\ BothSeries /\ method = "NAN" /\ op = "multiply" /\ outcome = "ok"
    /\ \E t \in Shared : At(result, t) = Num(4)
    /\ \E t \in OnlyIn(a, b) : At(a, t) = Num(0) /\ IsNaN(At(result, t))
    /\ \E t \in OnlyIn(b, a) : IsNaN(At(result, t))

\* The same call made with the operator that follows op in the cycle
\* add, subtract, multiply, divide, add.
NextOperator ==
    CASE op = "add" -> subtract(x, y, method)
      [] op = "subtract" -> multiply(x, y, method)
      [] op = "multiply" -> divide(x, y, method)
      [] op = "divide" -> add(x, y, method)

\* C5: for given operands and method, add, subtract, multiply and divide
\* return series with one and the same index (each operator agrees with
\* the next one, round the cycle), and the aligned pair an operator
\* combines has identical timestamps and equal lengths.
C5_SameIndex ==
    op \in BinaryOps =>
        /\ NextOperator.outcome = outcome
        /\ Index(NextOperator.result) = Index(result)
        /\ outcome = "ok" =>
            /\ Index(x_align.data) = Index(y_align.data)
            /\ Len(x_align.data) = Len(y_align.data)
            /\ Index(result) = Index(x_align.data)

C5_Witness ==
    /\ BothSeries /\ op = "divide" /\ method = "STEP" /\ outcome = "ok"
    /\ Len(a) # Len(b) /\ OnlyIn(a, b) # {} /\ OnlyIn(b, a) # {}
    /\ Len(x_align.data) = Cardinality(Union)
    /\ Index(add(x, y, method).result) = Index(result)
    /\ Index(subtract(x, y, method).result) = Index(result)
    /\ Index(multiply(x, y, method).result) = Index(result)

\* C6: when exactly one operand is a scalar, for every method the result
\* has the timeseries operand's index unchanged and the scalar is the
\* other operand at every timestamp; add(a, 0, ZERO) equals a elementwise.
C6_Scalar ==
    /\ (op \in BinaryOps /\ IsSeries(x) /\ IsScalar(y)) =>
        /\ outcome = "ok"
        /\ Index(result) = Index(a)
        /\ \A i \in 1..Len(a) : result[i].v = Apply(op, a[i].v, y.val)
        /\ (op = "add" /\ y.val = Num(0) /\ method = "ZERO") => result = a
    /\ (op \in BinaryOps /\ IsScalar(x) /\ IsSeries(y)) =>
        /\ outcome = "ok"
        /\ Index(result) = Index(b)
        /\ \A i \in 1..Len(b) : result[i].v = Apply(op, x.val, b[i].v)

C6_Witness ==
    /\ op = "add" /\ method = "ZERO" /\ IsSeries(x) /\ y = Scalar(Num(0))
    /\ Len(a) >= 2 /\ Len(a) < MaxT
    /\ a[1].v # a[2].v
    /\ outcome = "ok" /\ result = a

\* C9: divide never ends in an error because of a zero denominator: the
\* call returns a series over every aligned timestamp, holding the
\* division-by-zero marker (inf, -inf or missing) where the denominator is
\* 0 and the ordinary quotient (the q with q * denominator = numerator)
\* everywhere else.
C9_DivideByZero ==
    (op = "divide" /\ (IsSeries(x) \/ IsSeries(y))) =>
        /\ outcome = "ok"
        /\ Index(result) = Index(y_align.data)
        /\ \A i \in 1..Len(y_align.data) :
            LET n == x_align.data[i].v
                d == y_align.data[i].v
                q == result[i].v
            IN /\ d = Num(0) => q \in {Inf, NegInf, NaN}
               /\ (IsNum(n) /\ IsNum(d) /\ d # Num(0)) =>
                    IsNum(q) /\ q.n * d.n * n.d = n.n * q.d * d.d

C9_Witness ==
    /\ BothSeries /\ op = "divide" /\ method = "INTERSECT" /\ outcome = "ok"
    /\ \E t \in Shared :
        At(a, t) = Num(2) /\ At(b, t) = Num(0) /\ At(result, t) = Inf
    /\ \E t \in Shared :
        At(a, t) = Num(-1) /\ At(b, t) = Num(2) /\ At(result, t) = Rat(-1, 2)

\* C10: when one input is an empty timeseries and the other a non-empty
\* one, the result is empty under INTERSECT, and under NAN, ZERO and STEP
\* it is indexed by the non-empty side's timestamps, the empty side
\* contributing missing (NAN), 0 (ZERO) or missing (STEP) at each of them.
C10_EmptyInput ==
    /\ (BothSeries /\ a = <<>> /\ b # <<>>) =>
        IF method = "INTERSECT" THEN outcome = "ok" /\ result = <<>>
        ELSE /\ outcome = "ok"
             /\ Index(result) = Index(b)
             /\ y_align.data = b
             /\ \A i \in 1..Len(b) :
                /\ x_align.data[i].v = IF method = "ZERO" THEN Num(0) ELSE NaN
                /\ result[i].v = Apply(op, x_align.data[i].v, b[i].v)
    /\ (BothSeries /\ b = <<>> /\ a # <<>>) =>
        IF method = "INTERSECT" THEN outcome = "ok" /\ result = <<>>
        ELSE /\ outcome = "ok"
             /\ Index(result) = Index(a)
             /\ x_align.data = a
             /\ \A i \in 1..Len(a) :
                /\ y_align.data[i].v = IF method = "ZERO" THEN Num(0) ELSE NaN
                /\ result[i].v = Apply(op, a[i].v, y_align.data[i].v)

C10_Witness ==
    /\ BothSeries /\ op = "add" /\ method = "STEP" /\ outcome = "ok"
    /\ b = <<>> /\ Len(a) >= 2
    /\ Index(result) = Index(a)
    /\ \A i \in 1..Len(a) : IsNaN(y_align.data[i].v) /\ IsNaN(result[i].v)

(***************************************************************************)
(* Properties of floor and ceil.                                           *)
(***************************************************************************)
UnaryOps == {"floor", "ceil"}

\* Some timestamp of s is not after the one before it.
NotStrict(s) == \E i \in 1..(Len(s) - 1) : s[i + 1].t <= s[i].t
\* Some timestamp of s is before the one before it.
Descends(s) == \E i \in 1..(Len(s) - 1) : s[i + 1].t < s[i].t

\* C7 as stated: floor and ceil fail with a ValueConstraintError and return
\* no series whenever the timestamps are not strictly ascending (two equal
\* adjacent timestamps included), and return a result only otherwise.
C7_StrictAsStated ==
    op \in UnaryOps =>
        /\ NotStrict(x.data) =>
                outcome = "ValueConstraintError" /\ result = <<>>
        /\ outcome = "ok" => ~NotStrict(x.data)

\* C7 amended: floor and ceil fail with an AssertionError and return no
\* series whenever some timestamp is smaller than the one before it; they
\* return a result for every input whose timestamps never decrease, equal
\* adjacent timestamps included.
C7_Monotonic ==
    op \in UnaryOps =>
        /\ Descends(x.data) => outcome = "AssertionError" /\ result = <<>>
        /\ ~Descends(x.data) => outcome = "ok" /\ Len(result) = Len(x.data)

C7_Witness ==
    /\ op = "floor" /\ outcome = "ok"
    /\ Len(x.data) = 3
    /\ x.data[1].t = x.data[2].t /\ x.data[2].t < x.data[3].t
    /\ Len(result) = 3

Ge(u, v) == IsNum(u) /\ IsNum(v) /\ u.n * v.d >= v.n * u.d

====
